---- MODULE Spec2Model ----
(***************************************************************************)
(* Price-alert engine of the Ryanair flight tracker, as implemented by the *)
(* two chat front-ends: bot.py (Discord) and telegram_bot.py (Telegram).   *)
(* Each front-end keeps a global alert dictionary, persists it to a JSON   *)
(* file, and runs a periodic alert check on the asyncio event loop.        *)
(* The variable frontend selects which of the two programs is running.     *)
(***************************************************************************)
EXTENDS Integers, Sequences, FiniteSets, TLC

\* ---------------------------------------------------------------- bounds
MaxUsers == 2
MaxTarget == 1
MaxPrice == 2
MaxDay == 2
MaxFares == 2
MaxChannel == 1
MaxCmds == 4

Users == 1..MaxUsers
Targets == 0..MaxTarget
Prices == 0..MaxPrice
Days == 1..MaxDay
Channels == 1..MaxChannel

VARIABLES
    frontend,   \* "discord" (bot.py) or "telegram" (telegram_bot.py)
    alerts,     \* the global dict alerts / price_alerts, in insertion order
    file,       \* ALERTS_FILE on disk
    tickpc,     \* the alert-check loop: "notstarted", "idle" (between two
                \* ticks), "running" / "sending" (in a tick), "stopped",
                \* "blocked" (inside a fetch the provider does not answer)
    lowest,     \* the tick's local variable lowest / lowest_price, lowest_date
    snap,       \* Discord: list(alerts.items()) taken by the running tick
    idx,        \* index of the loop of the running tick
    n0,         \* Telegram: size of the dict when its iterator was created
    notified,   \* history: users the current/last tick selected for an alert
    tickErr,    \* history: the last tick ended by an uncaught exception
    fetched,    \* history: what the fetch of the last tick returned
    prior,      \* history: lowest fare of the last fetch that succeeded
    last,       \* history: the last handler that ran, and its reply
    ncmd,       \* number of /alert and /stopalert commands handled so far
    ready,      \* the chat client has reported ready since the process started
    due,        \* Discord: the next iteration's time passed during the running tick
    again,      \* history: users the previous tick selected (see the handlers)
    query,      \* the provider's response to the fetch of a /lowest command
    answer      \* what /lowest replied

vars == <<frontend, alerts, file, tickpc, lowest, snap, idx, n0, notified,
          tickErr, fetched, prior, last, ncmd, ready, due, again, query, answer>>

\* ------------------------------------------------------- provider response
\* One element of response["outbound"]["fares"]:
\*   null      the element is None / empty
\*   priceObj  "price" is present and a non-empty object
\*   hasValue  price["value"] is present
\*   value     price["value"]
Fare(n, d, po, hv, v, u) ==
    [null |-> n, day |-> d, priceObj |-> po, hasValue |-> hv, value |-> v,
     unavailable |-> u]

NullFare == Fare(TRUE, 1, FALSE, FALSE, 0, FALSE)

Fares ==
    {NullFare}
    \cup {Fare(FALSE, d, FALSE, FALSE, 0, u) : d \in Days, u \in BOOLEAN}
    \cup {Fare(FALSE, d, TRUE, FALSE, 0, u) : d \in Days, u \in BOOLEAN}
    \cup {Fare(FALSE, d, TRUE, TRUE, v, u) : d \in Days, v \in Prices, u \in BOOLEAN}

SeqsUpTo(S, n) == UNION {[1..k -> S] : k \in 0..n}

\* ok = FALSE: the HTTP call raised (timeout, non-2xx, connection error).
Responses ==
    {[ok |-> FALSE, fares |-> <<>>]}
    \cup {[ok |-> TRUE, fares |-> fs] : fs \in SeqsUpTo(Fares, MaxFares)}

NoFare == [found |-> FALSE, price |-> 0, day |-> 0]
Found(p, d) == [found |-> TRUE, price |-> p, day |-> d]

\* ------------------------------------------------ bot.py: get_flights, get_lowest
\* The filter of the list comprehension: f and f.get("price") and not f.get("unavailable").
\* f.get("price") is the price object, so a price whose value is 0 passes.
KeepDiscord(f) == ~f.null /\ f.priceObj /\ ~f.unavailable

\* [... for f in fares if ...]: the kept fares, in the order of the list
KeptFares(s) ==
    LET F[i \in 0..Len(s)] ==
            IF i = 0 THEN <<>>
            ELSE IF KeepDiscord(s[i]) THEN Append(F[i-1], s[i]) ELSE F[i-1]
    IN F[Len(s)]

\* sorted(..., key=lambda x: x["price"]): Python's sort is stable, so x goes
\* behind every element whose price is not larger.
InsertByPrice(x, s) ==
    LET k == Cardinality({i \in 1..Len(s) : s[i].price <= x.price})
    IN SubSeq(s, 1, k) \o <<x>> \o SubSeq(s, k+1, Len(s))

SortedByPrice(s) ==
    LET S[i \in 0..Len(s)] ==
            IF i = 0 THEN <<>> ELSE InsertByPrice(s[i], S[i-1])
    IN S[Len(s)]

\* f["price"]["value"] raises KeyError for a kept fare without a value; the
\* bare except then returns [] for the whole response, as it does when the
\* HTTP call raises.
get_flights(r) ==
    IF ~r.ok THEN <<>>
    ELSE LET kept == KeptFares(r.fares)
         IN IF \E i \in 1..Len(kept) : ~kept[i].hasValue THEN <<>>
            ELSE SortedByPrice([i \in 1..Len(kept) |->
                                  [date |-> kept[i].day, price |-> kept[i].value]])

\* Variant: an empty flight list read as a fare of price zero.
get_lowest_zero(r) ==
    LET flights == get_flights(r)
    IN IF flights = <<>> THEN Found(0, 1) ELSE Found(flights[1].price, flights[1].date)

get_lowest(r) ==
    LET flights == get_flights(r)
    IN IF flights = <<>> THEN NoFare ELSE Found(flights[1].price, flights[1].date)

\* ------------------------------------ telegram_bot.py: get_current_lowest_price
\* One pass over fares keeping the running minimum; Inf stands for float('inf').
Inf == MaxPrice + 1

\* if value and value < lowest_price: a value of 0 is falsy and is skipped
TakesOver(f, cur) ==
    /\ ~f.null /\ ~f.unavailable
    /\ f.priceObj /\ f.hasValue
    /\ f.value # 0
    /\ f.value < cur.price

get_current_lowest_price(r) ==
    IF ~r.ok \/ r.fares = <<>> THEN NoFare
    ELSE LET L[i \in 0..Len(r.fares)] ==
                 IF i = 0 THEN [price |-> Inf, day |-> 0]
                 ELSE IF TakesOver(r.fares[i], L[i-1])
                      THEN [price |-> r.fares[i].value, day |-> r.fares[i].day]
                      ELSE L[i-1]
             res == L[Len(r.fares)]
         IN IF res.price = Inf THEN NoFare ELSE Found(res.price, res.day)

\* The lowest fare as the running front-end computes it.
Lowest(fe, r) ==
    IF fe = "discord" THEN get_lowest(r) ELSE get_current_lowest_price(r)

\* ------------------------------------------------------- the alert dictionary
\* A Python dict keeps its items in insertion order; an item is held here
\* with its key.  Discord stores {"price", "channel", "active"}; Telegram
\* stores {"target_price", "active", "created"} and has no channel (0).
Entry(u, p, c, a) == [uid |-> u, price |-> p, channel |-> c, active |-> a]

DictHas(d, u) == \E i \in 1..Len(d) : d[i].uid = u

DictIndex(d, u) == CHOOSE i \in 1..Len(d) : d[i].uid = u

DictGet(d, u) == d[DictIndex(d, u)]

\* Variant: an existing item only has its price updated.
DictSet_price_only(d, u, e) ==
    IF DictHas(d, u) THEN [d EXCEPT ![DictIndex(d, u)].price = e.price] ELSE Append(d, e)

\* d[u] = e: rebinds an existing key in place, appends a new key
DictSet(d, u, e) ==
    IF DictHas(d, u) THEN [d EXCEPT ![DictIndex(d, u)] = e] ELSE Append(d, e)

\* Variant: d.setdefault(uid, {})["active"] = False
Deactivate_create(d, u) ==
    IF DictHas(d, u) THEN [d EXCEPT ![DictIndex(d, u)].active = FALSE]
    ELSE Append(d, Entry(u, 0, 0, FALSE))

\* if uid in d: d[uid]["active"] = False
Deactivate(d, u) ==
    IF DictHas(d, u) THEN [d EXCEPT ![DictIndex(d, u)].active = FALSE] ELSE d

\* ------------------------------------------------ load_alerts / save_alerts
NoFile == [kind |-> "absent", data |-> <<>>]
Corrupt == [kind |-> "corrupt", data |-> <<>>]
Json(d) == [kind |-> "json", data |-> d]

\* open(ALERTS_FILE, 'w') truncates the file before json.dump writes it; both
\* may raise, and save_alerts swallows the exception.
SaveOutcomes == {"ok", "open_failed", "dump_failed"}

save_alerts(d, f, outcome) ==
    CASE outcome = "ok" -> Json(d)
      [] outcome = "open_failed" -> f
      [] OTHER -> Corrupt

\* alerts is {} at import; a missing file leaves it so, an unreadable one
\* resets it to {} in the except branch.
load_alerts(f) == IF f.kind = "json" THEN f.data ELSE <<>>

\* ------------------------------------------------------------- handlers
\* What the handler found stored under the user's key when it began.
Before(d, u) ==
    IF ~DictHas(d, u) THEN "none"
    ELSE IF DictGet(d, u).active THEN "active" ELSE "inactive"

Reply(op, u, p, b, r) ==
    [op |-> op, uid |-> u, price |-> p, before |-> b, reply |-> r]

NoOp == Reply("none", 0, 0, "none", "none")

\* A command handler runs once the client is connected and the event loop is
\* free: no tick is running between two of its await points, and the loop
\* is not held inside a synchronous fetch.
LoopFree == ready /\ tickpc \notin {"running", "blocked"}

\* A command handled while a tick is in progress ends the record of what the
\* previous tick selected.
Untouched == IF tickpc = "sending" THEN {} ELSE again

\* A tick holding list(alerts.items()) holds the value objects themselves.
\* Rebinding alerts[uid] to a new dict leaves the old object in the list.
Rebound(sn, u) ==
    [i \in 1..Len(sn) |-> IF sn[i].uid = u THEN [sn[i] EXCEPT !.live = FALSE] ELSE sn[i]]

\* Setting ["active"] = False on the object bound in alerts is seen through
\* the list only where the list still holds that object.
Mutated(sn, u) ==
    [i \in 1..Len(sn) |->
        IF sn[i].uid = u /\ sn[i].live THEN [sn[i] EXCEPT !.active = FALSE] ELSE sn[i]]

TickFrame ==
    /\ again' = Untouched
    /\ UNCHANGED <<tickpc, lowest, idx, n0, notified, tickErr, fetched, prior,
                   ready, due, query, answer>>

\* bot.py /alert
cmd_alert(u, p, c) ==
    /\ frontend = "discord" /\ LoopFree /\ ncmd < MaxCmds
    /\ alerts' = DictSet(alerts, u, Entry(u, p, c, TRUE))
    /\ \E o \in SaveOutcomes : file' = save_alerts(alerts', file, o)
    /\ snap' = Rebound(snap, u)
    /\ last' = Reply("subscribe", u, p, Before(alerts, u), "alert_set")
    /\ ncmd' = ncmd + 1
    /\ UNCHANGED frontend /\ TickFrame

\* The text a user types where a price is expected: float() parses it to a
\* price, or raises ValueError.
BadPrice == [valid |-> FALSE, value |-> 0]
GoodPrice(p) == [valid |-> TRUE, value |-> p]

PriceTexts == {BadPrice} \cup {GoodPrice(p) : p \in Targets}

\* The reply the user ends up with after the alert form: the embed "Alert
\* Set!", or the text "Invalid price" sent by the except branch.
FormReply(t, sent) ==
    IF t.valid /\ sent THEN "alert_set" ELSE "invalid_price"

\* bot.py AlertModal.on_submit: the whole body is inside try, the bare except
\* answers "Invalid price".  float() raises before the dictionary is touched;
\* the send of the embed (sent = FALSE: it raises) comes after the write.
AlertModal_on_submit(u, t, c) ==
    /\ frontend = "discord" /\ LoopFree /\ ncmd < MaxCmds
    /\ IF ~t.valid
       THEN /\ UNCHANGED <<alerts, file, snap>>
            /\ last' = Reply("rejected", u, 0, "none", FormReply(t, FALSE))
       ELSE /\ alerts' = DictSet(alerts, u, Entry(u, t.value, c, TRUE))
            /\ \E o \in SaveOutcomes : file' = save_alerts(alerts', file, o)
            /\ snap' = Rebound(snap, u)
            /\ \E sent \in BOOLEAN :
                 last' = Reply("subscribe", u, t.value, Before(alerts, u),
                               FormReply(t, sent))
    /\ ncmd' = ncmd + 1
    /\ UNCHANGED frontend /\ TickFrame

\* telegram_bot.py /alert without an argument, or with one float() does not
\* parse: the handler replies and returns before the dictionary is touched.
set_alert_command_rejects(u) ==
    /\ frontend = "telegram" /\ LoopFree /\ ncmd < MaxCmds
    /\ last' = Reply("rejected", u, 0, "none", "invalid_price")
    /\ ncmd' = ncmd + 1
    /\ UNCHANGED <<frontend, alerts, file, snap>> /\ TickFrame

\* bot.py /stopalert
cmd_stopalert(u) ==
    /\ frontend = "discord" /\ LoopFree /\ ncmd < MaxCmds
    /\ alerts' = Deactivate(alerts, u)
    /\ IF DictHas(alerts, u)
       THEN \E o \in SaveOutcomes : file' = save_alerts(alerts', file, o)
       ELSE file' = file
    /\ snap' = Mutated(snap, u)
    /\ last' = Reply("unsubscribe", u, 0, Before(alerts, u), "alert_disabled")
    /\ ncmd' = ncmd + 1
    /\ UNCHANGED frontend /\ TickFrame

\* telegram_bot.py /alert with a parsable price
set_alert_command(u, p) ==
    /\ frontend = "telegram" /\ LoopFree /\ ncmd < MaxCmds
    /\ alerts' = DictSet(alerts, u, Entry(u, p, 0, TRUE))
    /\ \E o \in SaveOutcomes : file' = save_alerts(alerts', file, o)
    /\ last' = Reply("subscribe", u, p, Before(alerts, u), "alert_activated")
    /\ ncmd' = ncmd + 1
    /\ UNCHANGED <<frontend, snap>> /\ TickFrame

\* telegram_bot.py /stopalert
stop_alert_command(u) ==
    /\ frontend = "telegram" /\ LoopFree /\ ncmd < MaxCmds
    /\ alerts' = Deactivate(alerts, u)
    /\ IF DictHas(alerts, u)
       THEN /\ \E o \in SaveOutcomes : file' = save_alerts(alerts', file, o)
            /\ last' = Reply("unsubscribe", u, 0, Before(alerts, u), "alert_stopped")
       ELSE /\ file' = file
            /\ last' = Reply("unsubscribe", u, 0, "none", "no_active_alert")
    /\ ncmd' = ncmd + 1
    /\ UNCHANGED <<frontend, snap>> /\ TickFrame

\* ------------------------------------------------------------ the poll tick
\* What the fetch of a tick returned (history only).
Classify(r) ==
    IF ~r.ok THEN "failed"
    ELSE IF r.fares = <<>> THEN "nofares"
    ELSE IF \A i \in 1..Len(r.fares) : r.fares[i].null \/ r.fares[i].unavailable
         THEN "unavailable"
    ELSE "fares"

\* Everything a fetch can hand to the tick of a front-end: the lowest fare it
\* computes from the response, with what the response was.
Outcome(fe, r) == [class |-> Classify(r), ok |-> r.ok, low |-> Lowest(fe, r)]

DiscordOutcomes == {Outcome("discord", r) : r \in Responses}

TelegramOutcomes == {Outcome("telegram", r) : r \in Responses}

\* The coroutine returns (err = FALSE) or an exception leaves it (err = TRUE).
\* sel is the set of users the tick selected.  tasks.loop (Discord) calls the
\* coroutine again after an exception of a connection kind and ends the loop
\* task on any other; the job queue (Telegram) logs it and keeps the job.
TickEnds(err, sel) ==
    /\ IF err /\ frontend = "discord"
       THEN tickpc' \in {"idle", "stopped"}
       ELSE tickpc' = "idle"
    /\ again' = sel
    /\ lowest' = NoFare
    /\ snap' = <<>>
    /\ idx' = 0
    /\ n0' = 0
    /\ tickErr' = err
    /\ last' = Reply("tick", 0, 0, "none", "none")

\* Variant: the exception of a failed fetch is not caught and leaves the tick.
NoLowest_raises(ok) == TickEnds(~ok, {})

\* if not lowest: return.  A fetch that raised (ok = FALSE) was caught inside
\* get_flights / get_current_lowest_price, so the tick returns as it does on
\* a response without a usable fare.
NoLowest(ok) == TickEnds(FALSE, {})

StoreFrame == UNCHANGED <<frontend, alerts, file, ncmd, ready, query, answer>>

\* list(alerts.items())
Snapshot(d) == [i \in 1..Len(d) |-> [uid |-> d[i].uid, price |-> d[i].price,
                                      channel |-> d[i].channel, active |-> d[i].active,
                                      live |-> TRUE]]

\* not data.get("active") or lowest["price"] > data["price"]  -> continue
SkipsDiscord(low, data) == ~data.active \/ low.price > data.price

\* bot.py check_alerts, up to the for loop.  The loop task starts an
\* iteration when its time has come and the previous one has returned.
check_alerts ==
    /\ frontend = "discord" /\ tickpc = "idle"
    /\ due' = FALSE
    /\ \E r \in DiscordOutcomes :
         LET low == r.low IN
         /\ fetched' = r.class
         /\ prior' = IF r.ok THEN low ELSE prior
         /\ notified' = {}
         /\ IF ~low.found
            THEN NoLowest(r.ok)
            ELSE /\ tickpc' = "running"
                 /\ lowest' = low
                 /\ snap' = Snapshot(alerts)
                 /\ idx' = 1
                 /\ n0' = Len(alerts)
                 /\ tickErr' = FALSE
                 /\ UNCHANGED <<last, again>>
    /\ StoreFrame

\* bot.py check_alerts, one pass of the for loop up to await channel.send
check_alerts_iter ==
    /\ frontend = "discord" /\ tickpc = "running"
    /\ IF idx > Len(snap)
       THEN TickEnds(FALSE, notified) /\ UNCHANGED notified
       ELSE /\ \/ /\ SkipsDiscord(lowest, snap[idx])
                  /\ tickpc' = "running" /\ idx' = idx + 1 /\ UNCHANGED notified
               \/ /\ ~SkipsDiscord(lowest, snap[idx])
                  /\ notified' = notified \cup {snap[idx].uid}
                  /\ \E channel \in BOOLEAN :      \* bot.get_channel(...) found it
                       IF channel
                       THEN tickpc' = "sending" /\ idx' = idx
                       ELSE tickpc' = "running" /\ idx' = idx + 1
            /\ UNCHANGED <<lowest, snap, n0, tickErr, last, again>>
    /\ UNCHANGED <<fetched, prior, due>> /\ StoreFrame

\* Variant: a delivered alert deactivates the subscription (one-shot).
check_alerts_sent_oneshot ==
    /\ frontend = "discord" /\ tickpc = "sending"
    /\ \E sent \in BOOLEAN :
         IF sent
         THEN /\ tickpc' = "running" /\ idx' = idx + 1
              /\ alerts' = Deactivate(alerts, snap[idx].uid)
              /\ file' = save_alerts(alerts', file, "ok")
              /\ UNCHANGED <<lowest, snap, n0, tickErr, last, again>>
         ELSE TickEnds(TRUE, notified) /\ UNCHANGED <<alerts, file>>
    /\ UNCHANGED <<notified, fetched, prior, due, frontend, ncmd, ready, query, answer>>

\* bot.py check_alerts, await channel.send(embed=embed) completes or raises
check_alerts_sent ==
    /\ frontend = "discord" /\ tickpc = "sending"
    /\ \E sent \in BOOLEAN :
         IF sent
         THEN /\ tickpc' = "running" /\ idx' = idx + 1
              /\ UNCHANGED <<lowest, snap, n0, tickErr, last, again>>
         ELSE TickEnds(TRUE, notified)
    /\ UNCHANGED <<notified, fetched, prior, due>> /\ StoreFrame

\* ryanair_api.py get_cheapest_fares, called by the tick of either front-end:
\* self.session.get(url, params=params) passes no timeout, so requests waits
\* for as long as the provider keeps the connection without answering.  The
\* call is synchronous: the event loop, and every handler, waits with it.
get_cheapest_fares_unanswered ==
    /\ tickpc = "idle"
    /\ frontend = "telegram" => alerts # <<>>
    /\ tickpc' = "blocked"
    /\ fetched' = "pending"
    /\ notified' = {}
    /\ due' = FALSE
    /\ UNCHANGED <<lowest, snap, idx, n0, tickErr, prior, last, again>>
    /\ StoreFrame

\* telegram_bot.py check_alerts_job, up to the for loop
check_alerts_job ==
    /\ frontend = "telegram" /\ tickpc = "idle"
    /\ notified' = {}
    /\ IF alerts = <<>>
       THEN /\ TickEnds(FALSE, {})
            /\ fetched' = "notfetched"
            /\ prior' = prior
       ELSE \E r \in TelegramOutcomes :
              LET low == r.low IN
              /\ fetched' = r.class
              /\ prior' = IF r.ok THEN low ELSE prior
              /\ IF ~low.found
                 THEN NoLowest(r.ok)
                 ELSE /\ tickpc' = "running"
                      /\ lowest' = low
                      /\ snap' = <<>>
                      /\ idx' = 1
                      /\ n0' = Len(alerts)
                      /\ tickErr' = FALSE
                      /\ UNCHANGED <<last, again>>
    /\ UNCHANGED due /\ StoreFrame

\* telegram_bot.py check_alerts_job, one pass of for ... in price_alerts.items()
\* up to await context.bot.send_message.  The dict iterator raises
\* RuntimeError when the dict changed size since the loop began.
check_alerts_job_iter ==
    /\ frontend = "telegram" /\ tickpc = "running"
    /\ IF Len(alerts) # n0
       THEN TickEnds(TRUE, notified) /\ UNCHANGED notified
       ELSE IF idx > n0
       THEN TickEnds(FALSE, notified) /\ UNCHANGED notified
       ELSE /\ IF alerts[idx].active /\ lowest.price <= alerts[idx].price
               THEN /\ notified' = notified \cup {alerts[idx].uid}
                    /\ tickpc' = "sending" /\ idx' = idx
               ELSE /\ tickpc' = "running" /\ idx' = idx + 1
                    /\ UNCHANGED notified
            /\ UNCHANGED <<lowest, snap, n0, tickErr, last, again>>
    /\ UNCHANGED <<fetched, prior, due>> /\ StoreFrame

\* telegram_bot.py check_alerts_job, the send completes, or raises into the
\* except branch, which prints and goes on with the loop
check_alerts_job_sent ==
    /\ frontend = "telegram" /\ tickpc = "sending"
    /\ tickpc' = "running" /\ idx' = idx + 1
    /\ UNCHANGED <<lowest, snap, n0, tickErr, last, notified, fetched, prior,
                   due, again>>
    /\ StoreFrame

\* Variant: every period starts an execution of its own (a task per period).
period_elapses_overlap ==
    /\ tickpc = "sending"
    /\ tickpc' = "running" /\ idx' = 1 /\ n0' = Len(alerts)
    /\ snap' = Snapshot(alerts)
    /\ notified' = {}
    /\ UNCHANGED <<lowest, tickErr, fetched, prior, last, again, due>>
    /\ StoreFrame

\* The next period elapses while the running tick waits in a send.
\* Discord: the loop task is one task, it awaits the coroutine and only then
\* sleeps until the next iteration's time; a time already past makes it go on
\* at once.  Telegram: run_repeating registers one job; the job queue does
\* not start a run of a job whose previous run has not returned, and drops it.
period_elapses ==
    /\ tickpc = "sending"
    /\ due' = (frontend = "discord")
    /\ UNCHANGED <<tickpc, lowest, snap, idx, n0, notified, tickErr, fetched,
                   prior, last, again>>
    /\ StoreFrame

\* --------------------------------------------------------------- startup
\* Variant: main() does not call load_alerts() before the event loop starts.
ProcessStarts_unloaded(f) ==
    /\ alerts' = <<>>
    /\ tickpc' = "notstarted"
    /\ lowest' = NoFare
    /\ snap' = <<>>
    /\ idx' = 0
    /\ n0' = 0
    /\ notified' = {}
    /\ tickErr' = FALSE
    /\ fetched' = "none"
    /\ prior' = NoFare
    /\ ready' = FALSE
    /\ due' = FALSE
    /\ again' = {}

\* A new process up to the start of the event loop: main() has run
\* load_alerts() on file f; nothing of the old process is left.
ProcessStarts(f) ==
    /\ alerts' = load_alerts(f)
    /\ tickpc' = "notstarted"
    /\ lowest' = NoFare
    /\ snap' = <<>>
    /\ idx' = 0
    /\ n0' = 0
    /\ notified' = {}
    /\ tickErr' = FALSE
    /\ fetched' = "none"
    /\ prior' = NoFare
    /\ ready' = FALSE
    /\ due' = FALSE
    /\ again' = {}

\* The process is stopped between two steps and started again.
Restart ==
    /\ ProcessStarts(file)
    /\ last' = Reply("restart", 0, 0, "none", "none")
    /\ UNCHANGED <<frontend, file, ncmd, query, answer>>

\* The process is killed inside save_alerts() of the /alert or /stopalert
\* handler of user u, after open(ALERTS_FILE, 'w') has truncated the file and
\* before json.dump has completed it, and is started again.
save_alerts_killed(u, p) ==
    /\ LoopFree /\ ncmd < MaxCmds
    /\ \/ last' = Reply("killed", u, p, Before(alerts, u), "subscribe")
       \/ /\ DictHas(alerts, u) /\ p = 0
          /\ last' = Reply("killed", u, 0, Before(alerts, u), "unsubscribe")
    /\ file' = Corrupt
    /\ ProcessStarts(Corrupt)
    /\ ncmd' = ncmd + 1
    /\ UNCHANGED <<frontend, query, answer>>

\* bot.py on_ready: the client reports ready; the handler then awaits the
\* command sync.
on_ready ==
    /\ frontend = "discord" /\ ~ready
    /\ ready' = TRUE
    /\ UNCHANGED <<frontend, alerts, file, tickpc, lowest, snap, idx, n0, notified,
                   tickErr, fetched, prior, last, ncmd, due, again, query, answer>>

\* Variant: check_alerts.start() called from main(), before the client is ready.
check_alerts_start_in_main ==
    /\ frontend = "discord"
    /\ tickpc \in {"notstarted", "stopped"}
    /\ tickpc' = "idle"
    /\ UNCHANGED <<frontend, alerts, file, lowest, snap, idx, n0, notified,
                   tickErr, fetched, prior, last, ncmd, ready, due, again, query, answer>>

\* bot.py on_ready, check_alerts.start(): starts the loop task unless one is
\* running (start() then raises RuntimeError, which the event dispatcher
\* logs).  on_ready is dispatched again after a reconnect, which starts a
\* loop task that had ended.
check_alerts_start ==
    /\ frontend = "discord" /\ ready
    /\ tickpc \in {"notstarted", "stopped"}
    /\ tickpc' = "idle"
    /\ UNCHANGED <<frontend, alerts, file, lowest, snap, idx, n0, notified,
                   tickErr, fetched, prior, last, ncmd, ready, due, again, query, answer>>

\* telegram_bot.py main, application.run_polling(): the application is
\* initialised, polling begins and the job queue starts.
run_polling ==
    /\ frontend = "telegram" /\ ~ready
    /\ ready' = TRUE
    /\ tickpc' = "idle"
    /\ UNCHANGED <<frontend, alerts, file, lowest, snap, idx, n0, notified,
                   tickErr, fetched, prior, last, ncmd, due, again, query, answer>>

NoAnswer == [done |-> FALSE, title |-> "none", low |-> NoFare, printed |-> FALSE]

Init ==
    /\ frontend \in {"discord", "telegram"}
    /\ file = NoFile
    /\ alerts = load_alerts(file)
    /\ tickpc = "notstarted"
    /\ lowest = NoFare
    /\ snap = <<>>
    /\ idx = 0
    /\ n0 = 0
    /\ notified = {}
    /\ tickErr = FALSE
    /\ fetched = "none"
    /\ prior = NoFare
    /\ last = NoOp
    /\ ncmd = 0
    /\ ready = FALSE
    /\ due = FALSE
    /\ again = {}
    /\ query = [ok |-> FALSE, fares |-> <<>>]
    /\ answer = NoAnswer

Next ==
    \/ \E u \in Users, p \in Targets, c \in Channels : cmd_alert(u, p, c)
    \/ \E u \in Users : cmd_stopalert(u)
    \/ \E u \in Users, p \in Targets : set_alert_command(u, p)
    \/ \E u \in Users : stop_alert_command(u)
    \/ \E u \in Users, t \in PriceTexts, c \in Channels : AlertModal_on_submit(u, t, c)
    \/ \E u \in Users : set_alert_command_rejects(u)
    \/ check_alerts
    \/ check_alerts_iter
    \/ check_alerts_sent
    \/ check_alerts_job
    \/ check_alerts_job_iter
    \/ check_alerts_job_sent
    \/ get_cheapest_fares_unanswered
    \/ period_elapses
    \/ on_ready
    \/ check_alerts_start
    \/ run_polling
    \/ Restart
    \/ \E u \in Users, p \in Targets : save_alerts_killed(u, p)

Spec == Init /\ [][Next]_vars

\* ------------------------------------------------------ the /lowest command
\* The on-demand query fetches for itself and replies from what the fetch
\* returned; it touches neither the alert dictionary nor a running tick.
\* Its runs are explored over every response of the provider.
Answer(t, low, pr) == [done |-> TRUE, title |-> t, low |-> low, printed |-> pr]

\* Variant: the reply is built from a module-level cache that the running
\* tick writes as well; the date is the one the tick stored.
make_lowest_embed_cached(r) ==
    LET low == get_lowest(r)
    IN IF ~low.found THEN Answer("no_flights_found", NoFare, FALSE)
       ELSE Answer("best_deal",
                   Found(low.price, IF lowest.found THEN lowest.day ELSE low.day),
                   FALSE)

\* bot.py make_lowest_embed
make_lowest_embed(r) ==
    LET low == get_lowest(r)
    IN IF ~low.found THEN Answer("no_flights_found", NoFare, FALSE)
       ELSE Answer("best_deal", low, FALSE)

\* telegram_bot.py lowest_command; the except branch of
\* get_current_lowest_price prints the exception
lowest_reply(r) ==
    LET low == get_current_lowest_price(r)
    IN IF ~low.found THEN Answer("could_not_fetch", NoFare, ~r.ok)
       ELSE Answer("best_deal", low, FALSE)

QueryFrame ==
    UNCHANGED <<frontend, alerts, file, tickpc, lowest, snap, idx, n0, notified,
                tickErr, fetched, prior, last, ncmd, ready, due, again, query>>

\* bot.py /lowest
cmd_lowest ==
    /\ frontend = "discord" /\ ~answer.done
    /\ answer' = make_lowest_embed(query)
    /\ QueryFrame

\* telegram_bot.py /lowest
lowest_command ==
    /\ frontend = "telegram" /\ ~answer.done
    /\ answer' = lowest_reply(query)
    /\ QueryFrame

InitFares ==
    /\ frontend \in {"discord", "telegram"}
    /\ file = NoFile
    /\ alerts = load_alerts(file)
    /\ tickpc = "notstarted"
    /\ lowest = NoFare
    /\ snap = <<>>
    /\ idx = 0
    /\ n0 = 0
    /\ notified = {}
    /\ tickErr = FALSE
    /\ fetched = "none"
    /\ prior = NoFare
    /\ last = NoOp
    /\ ncmd = 0
    /\ ready = FALSE
    /\ due = FALSE
    /\ again = {}
    /\ query \in Responses
    /\ answer = NoAnswer

NextFares ==
    \/ cmd_lowest
    \/ lowest_command

SpecFares == InitFares /\ [][NextFares]_vars

\* ------------------------------------------ /lowest while the bot is running
\* The same handlers in the running bot: a /lowest command is handled when
\* the event loop is free, also while a tick waits in a send.  The handler
\* calls get_lowest() / get_current_lowest_price(), which fetches and
\* computes within the call; the response of that fetch is drawn at the
\* start of the run.
QueryResponses ==
    {r \in Responses :
        /\ Len(r.fares) <= 1
        /\ \A i \in 1..Len(r.fares) :
             /\ ~r.fares[i].null /\ ~r.fares[i].unavailable
             /\ r.fares[i].priceObj /\ r.fares[i].hasValue
             /\ r.fares[i].value > 0}

cmd_lowest_handled == LoopFree /\ cmd_lowest

lowest_command_handled == LoopFree /\ lowest_command

InitQuery ==
    /\ frontend \in {"discord", "telegram"}
    /\ file = NoFile
    /\ alerts = load_alerts(file)
    /\ tickpc = "notstarted"
    /\ lowest = NoFare
    /\ snap = <<>>
    /\ idx = 0
    /\ n0 = 0
    /\ notified = {}
    /\ tickErr = FALSE
    /\ fetched = "none"
    /\ prior = NoFare
    /\ last = NoOp
    /\ ncmd = 0
    /\ ready = FALSE
    /\ due = FALSE
    /\ again = {}
    /\ query \in QueryResponses
    /\ answer = NoAnswer

NextQuery ==
    \/ \E u \in Users, p \in Targets, c \in Channels : cmd_alert(u, p, c)
    \/ \E u \in Users, p \in Targets : set_alert_command(u, p)
    \/ check_alerts
    \/ check_alerts_iter
    \/ check_alerts_sent
    \/ check_alerts_job
    \/ check_alerts_job_iter
    \/ check_alerts_job_sent
    \/ on_ready
    \/ check_alerts_start
    \/ run_polling
    \/ cmd_lowest_handled
    \/ lowest_command_handled

SpecQuery == InitQuery /\ [][NextQuery]_vars

\* ------------------------------------------------- the command-line tools
\* check_flights.py, cli.py and main.py run once per invocation: they parse
\* their arguments, fetch once and print.  bot.py /prices lists the fares of
\* one fetch in the same way.  A run is explored over its arguments and the
\* provider's response; query holds them, answer what the run did.
\* A date is held as a day number; "%Y-%m-%d" formatting and parsing of a
\* valid date, and adding a timedelta of whole days, are exact on it.
MaxWindow == 2

NoDate == [given |-> FALSE, valid |-> FALSE, day |-> 0]
BadDate == [given |-> TRUE, valid |-> FALSE, day |-> 0]
GoodDate(d) == [given |-> TRUE, valid |-> TRUE, day |-> d]

DateArgs == {NoDate, BadDate} \cup {GoodDate(d) : d \in Days}

NoLimit == [given |-> FALSE, value |-> 0]
Limit(v) == [given |-> TRUE, value |-> v]

LimitArgs == {NoLimit} \cup {Limit(v) : v \in Prices}

\* The responses a listing is explored over: a failed call, and fares that
\* all carry a price value.
ListingResponses ==
    {r \in Responses :
        \A i \in 1..Len(r.fares) :
            ~r.fares[i].null /\ r.fares[i].priceObj /\ r.fares[i].hasValue}

Runs ==
    [today : Days, days : 1..MaxWindow, date : DateArgs, limit : LimitArgs,
     resp : ListingResponses]

NoWindow == [asked |-> FALSE, from |-> 0, to |-> 0]
Window(a, b) == [asked |-> TRUE, from |-> a, to |-> b]

NotRun ==
    [done |-> FALSE, tool |-> "none", exit |-> 0, fetched |-> FALSE,
     window |-> NoWindow, kind |-> "none", shown |-> {}]

Ran(t, e, f, w, k, sh) ==
    [done |-> TRUE, tool |-> t, exit |-> e, fetched |-> f, window |-> w,
     kind |-> k, shown |-> sh]

\* ryanair_api.py get_cheapest_fares: outboundDateFrom = date_out,
\* outboundDateTo = date_out + timedelta(days=flex_days * 2)
cheapest_fares_params(date_out, flex_days) ==
    Window(date_out, date_out + flex_days * 2)

\* check_flights.py / cli.py get_flights: start_date and end_date
script_params(today, days, date) ==
    IF date.given THEN Window(date.day, date.day)
    ELSE Window(today + 1, today + days)

\* [f for f in valid_fares if f['price']['value'] <= price_limit]
UnderLimit(s, v) ==
    LET Test(f) == f.value <= v IN SelectSeq(s, Test)

ShownFares(s) == {<<s[i].day, s[i].value>> : i \in 1..Len(s)}

\* check_flights.py display_flights: what is printed
check_flights_display(r, limit) ==
    LET valid_fares == KeptFares(r.fares)
        under == UnderLimit(valid_fares, limit.value)
    IN IF limit.given
       THEN IF under # <<>> THEN [kind |-> "listing", shown |-> ShownFares(under)]
            ELSE [kind |-> "no_flights_under", shown |-> {}]
       ELSE IF valid_fares = <<>> THEN [kind |-> "no_flights", shown |-> {}]
            ELSE [kind |-> "listing", shown |-> ShownFares(valid_fares)]

\* cli.py print_no_flights: if price_limit: ... else the general message.
\* A limit of 0 is falsy.
print_no_flights(limit) ==
    IF limit.given /\ limit.value # 0 THEN "no_flights_under" ELSE "no_flights"

\* cli.py display_flights: what is printed
cli_display(r, limit) ==
    LET valid_fares == KeptFares(r.fares)
        under == UnderLimit(valid_fares, limit.value)
    IN IF limit.given
       THEN IF under = <<>> THEN [kind |-> print_no_flights(limit), shown |-> {}]
            ELSE [kind |-> "listing", shown |-> ShownFares(under)]
       ELSE IF valid_fares = <<>> THEN [kind |-> print_no_flights(NoLimit), shown |-> {}]
            ELSE [kind |-> "listing", shown |-> ShownFares(valid_fares)]

\* bot.py make_prices_embed(limit): if limit: filters; a limit of 0 is falsy
make_prices_embed(r, limit) ==
    LET flights == get_flights(r)
        under == LET Test(f) == f.price <= limit.value IN SelectSeq(flights, Test)
        Listed(fl) == {<<fl[i].date, fl[i].price>> : i \in 1..Len(fl)}
    IN IF flights = <<>> THEN [kind |-> "no_flights", shown |-> {}]
       ELSE IF limit.given /\ limit.value # 0
       THEN IF under = <<>> THEN [kind |-> "no_flights_under", shown |-> {}]
            ELSE [kind |-> "listing", shown |-> Listed(under)]
       ELSE [kind |-> "listing", shown |-> Listed(flights)]

RunFrame ==
    UNCHANGED <<frontend, alerts, file, tickpc, lowest, snap, idx, n0, notified,
                tickErr, fetched, prior, last, ncmd, ready, due, again, query>>

\* check_flights.py main
check_flights_main ==
    /\ ~answer.done
    /\ answer' =
         IF query.date.given /\ ~query.date.valid
         THEN Ran("check_flights", 1, FALSE, NoWindow, "invalid_date", {})
         ELSE LET w == script_params(query.today, query.days, query.date)
                  d == check_flights_display(query.resp, query.limit)
              IN IF ~query.resp.ok
                 THEN Ran("check_flights", 1, TRUE, w, "fetch_error", {})
                 ELSE Ran("check_flights", 0, TRUE, w, d.kind, d.shown)
    /\ RunFrame

\* cli.py main
cli_main ==
    /\ ~answer.done
    /\ answer' =
         IF query.date.given /\ ~query.date.valid
         THEN Ran("cli", 1, FALSE, NoWindow, "invalid_date", {})
         ELSE LET w == script_params(query.today, query.days, query.date)
                  d == cli_display(query.resp, query.limit)
              IN IF ~query.resp.ok
                 THEN Ran("cli", 1, TRUE, w, "fetch_error", {})
                 ELSE Ran("cli", 0, TRUE, w, d.kind, d.shown)
    /\ RunFrame

\* main.py search_flights: args.date goes into the request as it is
search_flights ==
    /\ ~answer.done /\ query.date.given
    /\ answer' =
         IF ~query.resp.ok
         THEN Ran("main_search", 1, TRUE, NoWindow, "fetch_error", {})
         ELSE Ran("main_search", 0, TRUE, NoWindow, "results", {})
    /\ RunFrame

\* main.py get_cheapest: get_cheapest_fares parses date_out with strptime
\* before the request; its ValueError is caught with every other exception
get_cheapest ==
    /\ ~answer.done /\ query.date.given
    /\ answer' =
         IF ~query.date.valid
         THEN Ran("main_cheapest", 1, FALSE, NoWindow, "fetch_error", {})
         ELSE LET w == cheapest_fares_params(query.date.day, query.days)
              IN IF ~query.resp.ok
                 THEN Ran("main_cheapest", 1, TRUE, w, "fetch_error", {})
                 ELSE Ran("main_cheapest", 0, TRUE, w, "results", {})
    /\ RunFrame

\* bot.py /prices: get_flights(days) from today, then make_prices_embed
cmd_prices ==
    /\ ~answer.done /\ ~query.date.given
    /\ LET w == cheapest_fares_params(query.today, query.days)
           d == make_prices_embed(query.resp, query.limit)
       IN answer' = Ran("bot_prices", 0, TRUE, w, d.kind, d.shown)
    /\ RunFrame

InitTools ==
    /\ frontend = "discord"
    /\ file = NoFile
    /\ alerts = load_alerts(file)
    /\ tickpc = "notstarted"
    /\ lowest = NoFare
    /\ snap = <<>>
    /\ idx = 0
    /\ n0 = 0
    /\ notified = {}
    /\ tickErr = FALSE
    /\ fetched = "none"
    /\ prior = NoFare
    /\ last = NoOp
    /\ ncmd = 0
    /\ ready = FALSE
    /\ due = FALSE
    /\ again = {}
    /\ query \in Runs
    /\ answer = NotRun

NextTools ==
    \/ check_flights_main
    \/ cli_main
    \/ search_flights
    \/ get_cheapest
    \/ cmd_prices

SpecTools == InitTools /\ [][NextTools]_vars

\* ==================================================================== claims
\* The tick that just ended fetched a response with a lowest fare (prior holds
\* it); no command has been handled since the tick ended.
TickDoneWithLowest ==
    /\ tickpc = "idle" /\ last.op = "tick"
    /\ fetched \in {"fares", "unavailable", "nofares"}
    /\ prior.found

\* C1: on a tick with a determinable lowest fare L, a notification is produced
\* for a subscriber if and only if its subscription is active and
\* L.price <= targetPrice.
\* Stated for a lowest fare with a positive price.
C1_NotifiedIffActiveAndMet ==
    (TickDoneWithLowest /\ prior.price > 0) =>
        \A i \in 1..Len(alerts) :
            (alerts[i].uid \in notified) <=> (alerts[i].active /\ prior.price <= alerts[i].price)

\* ---------------------------------------------------------------------- C2
\* A fare that normalization keeps: it has a positive price and no
\* unavailable flag.
Available(f) ==
    ~f.null /\ ~f.unavailable /\ f.priceObj /\ f.hasValue /\ f.value > 0

WellFormed(r) ==
    r.ok /\ \A i \in 1..Len(r.fares) :
                ~r.fares[i].null /\ r.fares[i].priceObj /\ r.fares[i].hasValue
                /\ r.fares[i].value > 0

\* The fare the claim describes: minimum price among the available fares,
\* the earliest day among those of minimum price.
IsCheapestEarliest(r, low) ==
    LET av == {i \in 1..Len(r.fares) : Available(r.fares[i])}
    IN IF av = {} THEN low = NoFare
       ELSE /\ low.found
            /\ \E i \in av : r.fares[i].value = low.price /\ r.fares[i].day = low.day
            /\ \A i \in av :
                 \/ r.fares[i].value > low.price
                 \/ r.fares[i].value = low.price /\ r.fares[i].day >= low.day

\* C2: for every fare set the lowest fare is the available fare of minimum
\* price, ties broken by the earliest date whatever the order of the list,
\* and is none exactly when no fare is available.  Stated for responses whose
\* fares all carry a positive price.
C2_LowestIsCheapestEarliest ==
    (answer.done /\ WellFormed(query)) => IsCheapestEarliest(query, answer.low)

\* ---------------------------------------------------------------------- C3
\* C3: when the fetch of a tick fails, the tick still evaluates every active
\* subscription against the previously fetched fares: a subscriber whose
\* target the prior lowest fare meets is notified.
C3_FailedFetchUsesPriorSnapshot ==
    (/\ tickpc = "idle" /\ last.op = "tick"
     /\ fetched = "failed"
     /\ prior.found /\ prior.price > 0) =>
        \A i \in 1..Len(alerts) :
            (alerts[i].active /\ prior.price <= alerts[i].price)
                => alerts[i].uid \in notified

\* ---------------------------------------------------------------------- C4
EmptyResponse == [ok |-> TRUE, fares |-> <<>>]

ReplyTo(fe, r) == IF fe = "discord" THEN make_lowest_embed(r) ELSE lowest_reply(r)

\* C4: a failed fetch never gives the caller the result that a well-formed
\* response without fares gives.
C4_FetchFailureDistinctFromNoFlights ==
    (answer.done /\ ~query.ok) =>
        <<answer.title, answer.low>>
            # <<ReplyTo(frontend, EmptyResponse).title, ReplyTo(frontend, EmptyResponse).low>>

\* ---------------------------------------------------------------------- C5
\* C5: when the provider returned no fares, or only unavailable ones, the tick
\* ends at once and without an exception, with no lowest fare (never a fare
\* of price zero) and no notification for any subscriber.
C5_NoFareNoNotification ==
    fetched \in {"nofares", "unavailable"} =>
        /\ tickpc = "idle"
        /\ ~lowest.found
        /\ notified = {}
        /\ ~tickErr

\* A tick on a response of unavailable fares has just ended while an active
\* subscription with the highest target, and one with target 0, are stored.
C5_Witness ==
    /\ tickpc = "idle" /\ last.op = "tick"
    /\ fetched = "unavailable"
    /\ \E i \in 1..Len(alerts) : alerts[i].active /\ alerts[i].price = MaxTarget
    /\ \E i \in 1..Len(alerts) : alerts[i].active /\ alerts[i].price = 0

\* ---------------------------------------------------------------------- C6
\* C6: a fare whose price is zero is dropped during normalization, so no tick
\* sends a notification on a lowest fare of price zero.
C6_ZeroPriceNeverNotifies ==
    tickpc = "sending" => lowest.price > 0

\* ---------------------------------------------------------------------- C7
\* C7: after Subscribe(id, target) a lookup of id finds exactly one
\* subscription, with that target and active, whatever was stored for id
\* before; no id ever has two subscriptions.
C7_SubscribeThenGet ==
    /\ \A i, j \in 1..Len(alerts) : alerts[i].uid = alerts[j].uid => i = j
    /\ last.op = "subscribe" =>
         /\ Cardinality({i \in 1..Len(alerts) : alerts[i].uid = last.uid}) = 1
         /\ \A i \in 1..Len(alerts) :
              alerts[i].uid = last.uid =>
                  alerts[i].price = last.price /\ alerts[i].active

\* A re-subscription of a deactivated subscriber, with a target other than
\* the one that was stored, has just been handled.
C7_Witness ==
    /\ last.op = "subscribe" /\ last.before = "inactive"
    /\ last.price = MaxTarget
    /\ \E i \in 1..Len(alerts) : alerts[i].uid = last.uid /\ alerts[i].active
    /\ \E i \in 1..Len(alerts) : alerts[i].uid # last.uid

\* ---------------------------------------------------------------------- C8
\* The replies the front-ends mark as failures (the cross mark), as against
\* the ones they mark as done (the check mark).
IsErrorReply(r) == r = "no_active_alert"

\* C8 as stated: Unsubscribe of a never-subscribed id is not reported as an
\* error.
C8_UnknownUnsubscribeNotAnError ==
    (last.op = "unsubscribe" /\ last.before = "none") => ~IsErrorReply(last.reply)

\* C8 amended: Unsubscribe of a never-subscribed id changes neither the
\* dictionary nor the file and creates no record for the id; the handler
\* ends with its reply, "Alert disabled" on Discord and the notice "You
\* don't have an active alert" on Telegram.
C8_UnknownUnsubscribeIsNoOp ==
    [][(/\ ncmd' = ncmd + 1
        /\ last'.op = "unsubscribe"
        /\ ~DictHas(alerts, last'.uid)) =>
           /\ alerts' = alerts
           /\ file' = file
           /\ ~DictHas(alerts', last'.uid)
           /\ last'.reply = IF frontend = "discord" THEN "alert_disabled"
                            ELSE "no_active_alert"]_vars

\* /stopalert of a user without a record has just been handled while another
\* user's subscription is stored and on disk.
C8_Witness ==
    /\ last.op = "unsubscribe" /\ last.before = "none"
    /\ ~DictHas(alerts, last.uid)
    /\ alerts # <<>>
    /\ file = Json(alerts)

\* ---------------------------------------------------------------------- C9
\* C9: from Unsubscribe until the next Subscribe of the same id the record
\* stays, inactive, and no tick produces a notification for that subscriber:
\* no step selects a subscriber whose stored subscription is inactive.
C9_InactiveNeverNotified ==
    [][\A i \in 1..Len(alerts) :
          ~alerts[i].active => alerts[i].uid \notin (notified' \ notified)]_vars

\* --------------------------------------------------------------------- C10
TickStep ==
    \/ check_alerts
    \/ check_alerts_iter
    \/ check_alerts_sent
    \/ check_alerts_job
    \/ check_alerts_job_iter
    \/ check_alerts_job_sent
    \/ get_cheapest_fares_unanswered

Stored(d, u) == {d[i] : i \in {j \in 1..Len(d) : d[j].uid = u}}

\* C10: no step of a tick changes the dictionary or the file; within a
\* process, the stored subscription of a user changes only in the /alert or
\* /stopalert handler of that user.
C10_TickLeavesStoreUnchanged ==
    [][/\ TickStep => (alerts' = alerts /\ file' = file)
       /\ \A u \in Users :
            Stored(alerts', u) # Stored(alerts, u) =>
                \/ last'.op \in {"restart", "killed"}
                \/ /\ ncmd' = ncmd + 1
                   /\ last'.op \in {"subscribe", "unsubscribe"}
                   /\ last'.uid = u]_vars

\* A tick that selected a subscriber and then lost its delivery has just
\* ended, with the subscriptions stored and on disk.
C10_Witness ==
    /\ tickpc = "idle" /\ last.op = "tick"
    /\ notified # {} /\ tickErr
    /\ \E i \in 1..Len(alerts) : alerts[i].active
    /\ file = Json(alerts)

\* --------------------------------------------------------------------- C11
\* C11: a subscriber the previous tick notified, whose subscription is still
\* active with its target still met by the lowest fare of the next tick, is
\* notified by that tick as well; no command is handled during that tick.
\* Stated for a lowest fare with a positive price.
C11_NotifiedOnEveryTick ==
    [][(/\ tickpc \in {"running", "sending"}
        /\ tickpc' \in {"idle", "stopped"}
        /\ lowest.price > 0) =>
           \A i \in 1..Len(alerts) :
               (/\ alerts[i].uid \in again
                /\ alerts[i].active
                /\ lowest.price <= alerts[i].price) => alerts[i].uid \in notified']_vars

\* --------------------------------------------------------------------- C12
\* C12: after every Subscribe or Unsubscribe has returned, whether its write
\* succeeded or failed, the subscriptions in memory are the ones the file
\* holds.
C12_MemoryEqualsDisk ==
    last.op \in {"subscribe", "unsubscribe"} => alerts = load_alerts(file)

\* --------------------------------------------------------------------- C13
\* The replies that tell the user the alert was set or stopped.
IsDoneReply(r) ==
    r \in {"alert_set", "alert_activated", "alert_disabled", "alert_stopped"}

\* The handler called save_alerts() and the file does not hold what it was
\* to write.
WriteFailed ==
    /\ last.op = "subscribe" \/ (last.op = "unsubscribe" /\ last.before # "none")
    /\ file # Json(alerts)

\* C13: when the write of a Subscribe or Unsubscribe failed, the user is not
\* told that the alert was set or stopped.
C13_WriteFailureSurfaced ==
    WriteFailed => ~IsDoneReply(last.reply)

\* --------------------------------------------------------------------- C14
\* C14: a restart between two steps, followed by the startup load, gives the
\* subscriptions the process had in memory before.
C14_RestartReproducesSubscriptions ==
    [][last'.op = "restart" => alerts' = alerts]_vars

\* --------------------------------------------------------------------- C15
\* C15: when the process is killed during the write of a Subscribe or
\* Unsubscribe, the load after the restart gives the subscriptions before the
\* operation or the ones after it.  Stated for an operation that began with
\* the file holding the subscriptions in memory.
C15_KilledWriteKeepsBeforeOrAfter ==
    [][(/\ ncmd' = ncmd + 1 /\ last'.op = "killed"
        /\ alerts = load_alerts(file)) =>
          \/ alerts' = alerts
          \/ last'.reply = "unsubscribe" /\ alerts' = Deactivate(alerts, last'.uid)
          \/ /\ last'.reply = "subscribe"
             /\ \E c \in 0..MaxChannel :
                  alerts' = DictSet(alerts, last'.uid,
                                    Entry(last'.uid, last'.price, c, TRUE))]_vars

\* --------------------------------------------------------------------- C16
InTick == tickpc \in {"running", "sending"}

SameProcess == last'.op \notin {"restart", "killed"}

C17_CommandDuringTickDoesNotFailIt ==
    [][~(tickpc = "running" /\ tickpc' \in {"idle", "stopped"} /\ tickErr')]_vars

\* --------------------------------------------------------------------- C18
TickStart == check_alerts \/ check_alerts_job

\* C18: after a tick whose fetch failed the tick has returned without an
\* exception, the loop has not ended and the tick of the next period can
\* start.
C18_FailedFetchKeepsLoopRunning ==
    fetched = "failed" =>
        /\ tickpc = "idle"
        /\ ~tickErr
        /\ ready
        /\ ENABLED TickStart

\* A tick whose fetch failed has just ended while an active subscription is
\* stored; the tick before it had fetched a lowest fare.
C18_Witness ==
    /\ fetched = "failed" /\ last.op = "tick" /\ tickpc = "idle"
    /\ prior.found
    /\ \E i \in 1..Len(alerts) : alerts[i].active

\* --------------------------------------------------------------------- C19
\* C19: a delivery that fails does not end the tick: after the send the tick
\* goes on with the next subscriber, and the loop is not stopped.
C19_FailedDeliveryDoesNotStopTick ==
    [][(tickpc = "sending" /\ tickpc' # "sending" /\ SameProcess) =>
          (tickpc' = "running" /\ idx' = idx + 1)]_vars

\* --------------------------------------------------------------------- C20
\* C20: the alert-check loop is started, and a tick runs, only after the chat
\* client has reported ready in the running process.
C20_NoTickBeforeReady ==
    (tickpc # "notstarted" \/ fetched # "none" \/ notified # {}) => ready

\* A tick is delivering an alert for a subscription made after the client
\* reported ready.
C20_Witness ==
    /\ tickpc = "sending" /\ ready
    /\ file.kind = "json"
    /\ \E i \in 1..Len(alerts) : alerts[i].active
    /\ ncmd = 1

\* --------------------------------------------------------------------- C21
\* C21: every fetch of the alert engine ends within a bounded time, so no
\* tick is ever left waiting inside a fetch that the provider does not
\* answer.
C21_FetchNeverBlocks ==
    tickpc # "blocked"

\* --------------------------------------------------------------------- C22
\* C22: a fetch for windowDays days from a start date asks the provider for
\* the range that ends exactly windowDays days after its start.
C22_WindowIsWindowDays ==
    (answer.done /\ answer.window.asked /\ ~query.date.given) =>
        answer.window.to - answer.window.from = query.days

C24_AnswerFromOneResponse ==
    (answer.done /\ answer.low.found) =>
        \E i \in 1..Len(query.fares) :
            /\ Available(query.fares[i])
            /\ query.fares[i].value = answer.low.price
            /\ query.fares[i].day = answer.low.day

\* A /lowest command has been answered with a fare while a tick, waiting in
\* a send, holds the lowest fare of another fetch.
C24_Witness ==
    /\ answer.done /\ answer.low.found
    /\ tickpc = "sending"
    /\ lowest.found /\ lowest.day # answer.low.day /\ lowest.price # answer.low.price

\* --------------------------------------------------------------------- C25
\* C25: no run ends with a failure exit status, whether its fetch failed or
\* its input was invalid.
C25_NoErrorExits ==
    answer.done => answer.exit = 0

\* --------------------------------------------------------------------- C26
PositivePrices(r) == \A i \in 1..Len(r.fares) : r.fares[i].value > 0

Qualifying(r, v) ==
    {<<r.fares[i].day, r.fares[i].value>> :
        i \in {j \in 1..Len(r.fares) : Available(r.fares[j]) /\ r.fares[j].value <= v}}

\* C26: with a price ceiling, the listing shows exactly the available fares
\* whose price is at or below the ceiling, for every ceiling including 0; when
\* none qualifies it reports "no flights under the ceiling".  Stated for
\* responses with an available fare whose fares all carry a positive price.
C26_FilterAtOrBelowCeiling ==
    (/\ answer.done /\ answer.tool \in {"check_flights", "cli", "bot_prices"}
     /\ query.resp.ok
     /\ query.limit.given /\ PositivePrices(query.resp)
     /\ Qualifying(query.resp, MaxPrice) # {}) =>
        IF Qualifying(query.resp, query.limit.value) = {}
        THEN answer.kind = "no_flights_under"
        ELSE answer.kind = "listing"
             /\ answer.shown = Qualifying(query.resp, query.limit.value)

\* --------------------------------------------------------------------- C27
NoCommandYet == last.op \in {"none", "restart", "killed"}

\* C27: from the start of a process until its first command is handled, the
\* subscriptions in memory are the ones loaded from the file, before the
\* client is ready and the loop started, and the first tick runs over them.
C27_LoadedBeforeFirstTickAndCommand ==
    /\ ~ready => (alerts = load_alerts(file) /\ tickpc = "notstarted")
    /\ NoCommandYet =>
         /\ alerts = load_alerts(file)
         /\ (frontend = "discord" /\ InTick) => snap = Snapshot(alerts)
         /\ (frontend = "telegram" /\ InTick) => n0 = Len(alerts)

\* The first tick of a restarted process is delivering a notification for a
\* subscription the startup load read from the file.
C27_Witness ==
    /\ last.op = "restart" /\ tickpc = "sending"
    /\ file.kind = "json" /\ alerts = file.data
    /\ \E i \in 1..Len(alerts) : alerts[i].active /\ alerts[i].uid \in notified

\* --------------------------------------------------------------------- C28
\* C28: every subscriber a step of a tick selects for a notification has,
\* at that moment, a stored subscription that is active and whose target the
\* lowest fare of the tick meets.
C28_NotificationJustifiedByStore ==
    [][\A u \in notified' \ notified :
          \E i \in 1..Len(alerts) :
              /\ alerts[i].uid = u
              /\ alerts[i].active
              /\ lowest.price <= alerts[i].price]_vars

\* --------------------------------------------------------------------- C29
\* C29: for every response the two front-ends determine the same lowest
\* fare: both none, or the same price and date.
C29_FrontEndsAgreeOnLowest ==
    answer.done => get_lowest(query) = get_current_lowest_price(query)

\* --------------------------------------------------------------------- C30
\* C30: a request through the Discord alert form that is answered "Invalid
\* price" has changed neither the dictionary nor the file.
C30_InvalidPriceLeavesStore ==
    [][(/\ ncmd' = ncmd + 1
        /\ frontend = "discord"
        /\ last'.reply = "invalid_price") =>
           (alerts' = alerts /\ file' = file)]_vars

====
